---- MODULE Spec2Model ----
(***************************************************************************)
(* AdForge backend (server.js): the script sanitizer cleanScript, the      *)
(* keyword timing allocator segmentScriptAndMatchImages and the            *)
(* POST /api/generate-video handler.                                       *)
(*                                                                         *)
(* Strings are sequences of one-character strings, so that the regular     *)
(* expressions and indexOf of the source are computed character by         *)
(* character.                                                              *)
(***************************************************************************)
EXTENDS Integers, Sequences, FiniteSets, TLC

(***************************************************************************)
(* Bounds of the model.                                                    *)
(***************************************************************************)
\* number of text pieces an input script of the sanitizer is built from
MaxPieces == 3

(***************************************************************************)
(* Characters.                                                             *)
(***************************************************************************)
NL == "\n"

UpperChars == <<"A","B","C","D","E","F","G","H","I","J","K","L","M",
                "N","O","P","Q","R","S","T","U","V","W","X","Y","Z">>

LowerChars == <<"a","b","c","d","e","f","g","h","i","j","k","l","m",
                "n","o","p","q","r","s","t","u","v","w","x","y","z">>

\* String.prototype.toLowerCase / the i flag of a regular expression, per character
LowerChar(c) ==
    IF \E k \in 1..26 : UpperChars[k] = c
    THEN LowerChars[CHOOSE k \in 1..26 : UpperChars[k] = c]
    ELSE c

\* String.prototype.toLowerCase
toLowerCase(s) == [k \in 1..Len(s) |-> LowerChar(s[k])] \o <<>>

\* the class \s of a regular expression
IsSpace(c) == c \in {" ", NL, "\t"}

\* the class \d of a regular expression
IsDigit(c) == c \in {"0","1","2","3","4","5","6","7","8","9"}

\* s.substring(from - 1, to) with 1-based inclusive bounds
Slice(s, from, to) == IF to < from THEN <<>> ELSE SubSeq(s, from, to)

\* the literal lit occurs in s at position p (lit is lower case when ci)
MatchAt(s, p, lit, ci) ==
    /\ p >= 1
    /\ p + Len(lit) - 1 <= Len(s)
    /\ \A k \in 1..Len(lit) :
          (IF ci THEN LowerChar(s[p + k - 1]) ELSE s[p + k - 1]) = lit[k]

(***************************************************************************)
(* Scanning.  A scan is written as the least or the greatest element of a  *)
(* set of positions.                                                       *)
(***************************************************************************)
Least(S) == CHOOSE q \in S : \A r \in S : q <= r

Greatest(S) == CHOOSE q \in S : \A r \in S : q >= r

\* the first position at or after p that does not hold a \s character
SkipSpace(s, p) == Least({q \in p..Len(s) : ~IsSpace(s[q])} \cup {Len(s) + 1})

\* the first position at or after p that does not hold a digit
SkipDigits(s, p) == Least({q \in p..Len(s) : ~IsDigit(s[q])} \cup {Len(s) + 1})

\* the first position at or after p that does not hold a line break
SkipBreaks(s, p) == Least({q \in p..Len(s) : s[q] # NL} \cup {Len(s) + 1})

\* ^ under the m flag
AtLineStart(s, p) == p = 1 \/ s[p - 1] = NL

\* $ under the m flag
AtLineEnd(s, p) == p = Len(s) + 1 \/ s[p] = NL

(***************************************************************************)
(* cleanScript.  MatchEnd(re, s, q) is the position after the match of the *)
(* regular expression re that starts at position q of s, 0 when re does    *)
(* not match there; replace is String.prototype.replace with the g flag.   *)
(***************************************************************************)
VoiceoverLabel == <<"v","o","i","c","e","o","v","e","r",":">>

\* /open.*?close/: the lazy .*? ends at the first close that is reached
\* without crossing a line break (. excludes \n)
SpanEnd(s, q, open, close, ci) ==
    IF ~MatchAt(s, q, open, ci) THEN 0
    ELSE LET j == Least({r \in (q + Len(open))..Len(s) :
                            s[r] = NL \/ MatchAt(s, r, close, ci)} \cup {Len(s) + 1})
         IN  IF MatchAt(s, j, close, ci) THEN j + Len(close) ELSE 0

\* /^Voiceover:\s*/gim
LabelAtLineStartEnd(s, q) ==
    IF AtLineStart(s, q) /\ MatchAt(s, q, VoiceoverLabel, TRUE)
    THEN SkipSpace(s, q + Len(VoiceoverLabel))
    ELSE 0

\* /\n\s*Voiceover:\s*/gi
LabelAfterBreakEnd(s, q) ==
    IF s[q] # NL THEN 0
    ELSE LET l == SkipSpace(s, q + 1)
         IN  IF MatchAt(s, l, VoiceoverLabel, TRUE)
             THEN SkipSpace(s, l + Len(VoiceoverLabel))
             ELSE 0

\* /Scene \d+:/gi
SceneMarkerEnd(s, q) ==
    IF ~MatchAt(s, q, <<"s","c","e","n","e"," ">>, TRUE) THEN 0
    ELSE LET e == SkipDigits(s, q + 6)
         IN  IF e > q + 6 /\ MatchAt(s, e, <<":">>, FALSE) THEN e + 1 ELSE 0

\* /\n{3,}/g
BreaksEnd(s, q) ==
    IF MatchAt(s, q, <<NL, NL, NL>>, FALSE) THEN SkipBreaks(s, q) ELSE 0

\* /^\s+|\s+$/gm: at a line start the greedy \s+ takes the whole run of
\* white space; elsewhere it gives characters back until $ holds
LineEdgeEnd(s, q) ==
    IF ~IsSpace(s[q]) THEN 0
    ELSE LET run == SkipSpace(s, q)
         IN  IF AtLineStart(s, q) THEN run
             ELSE LET e == Greatest({r \in (q + 1)..run : AtLineEnd(s, r)} \cup {q})
                  IN  IF e > q THEN e ELSE 0

MatchEnd(re, s, q) ==
    CASE re = "bracket"      -> SpanEnd(s, q, <<"[">>, <<"]">>, FALSE)
      [] re = "bold"         -> IF MatchAt(s, q, <<"*","*">>, FALSE) THEN q + 2 ELSE 0
      [] re = "labelStart"   -> LabelAtLineStartEnd(s, q)
      [] re = "labelBreak"   -> LabelAfterBreakEnd(s, q)
      [] re = "sceneMarker"  -> SceneMarkerEnd(s, q)
      [] re = "sceneBracket" -> SpanEnd(s, q, <<"[","s","c","e","n","e">>, <<"]">>, TRUE)
      [] re = "paren"        -> SpanEnd(s, q, <<"(">>, <<")">>, FALSE)
      [] re = "dash"         -> SpanEnd(s, q, <<"-","-">>, <<"-","-">>, FALSE)
      [] re = "breaks"       -> BreaksEnd(s, q)
      [] re = "lineEdge"     -> LineEdgeEnd(s, q)

\* s.replace(re, repl) from position p on; one recursion step per match
RECURSIVE replace(_, _, _, _)
replace(s, re, repl, p) ==
    LET q == Least({r \in p..Len(s) : MatchEnd(re, s, r) > 0} \cup {Len(s) + 1})
    IN  IF q > Len(s) THEN Slice(s, p, Len(s))
        ELSE Slice(s, p, q - 1) \o repl \o replace(s, re, repl, MatchEnd(re, s, q))

\* String.prototype.trim
trim(s) ==
    Slice(s, SkipSpace(s, 1), Greatest({q \in 1..Len(s) : ~IsSpace(s[q])} \cup {0}))

cleanScript(script) ==
    LET c1  == replace(script, "bracket", <<>>, 1)
        c2  == replace(c1, "bold", <<>>, 1)
        c3  == replace(c2, "labelStart", <<>>, 1)
        c4  == replace(c3, "labelBreak", <<NL>>, 1)
        c5  == replace(c4, "sceneMarker", <<>>, 1)
        c6  == replace(c5, "sceneBracket", <<>>, 1)
        c7  == replace(c6, "paren", <<>>, 1)
        c8  == replace(c7, "dash", <<>>, 1)
        c9  == replace(c8, "breaks", <<NL, NL>>, 1)
        c10 == replace(c9, "lineEdge", <<>>, 1)
    IN  trim(c10)

(***************************************************************************)
(* segmentScriptAndMatchImages.                                            *)
(*                                                                         *)
(* A file is [id, originalname, path]; id stands for the identity of the   *)
(* multer file object.  A category is a string (a sequence of characters). *)
(* The imageAnalysis form field is [type |-> "undefined"] when the field   *)
(* is absent and [type |-> "string", json |-> j, entries |-> e] otherwise, *)
(* where j says what JSON.parse makes of the text: "error" (SyntaxError),  *)
(* "null", "number" or "object"; e maps a file name to the category of its *)
(* entry (<<>> when the entry has no category).                            *)
(***************************************************************************)
\* the value of a form field that the request does not carry
Undefined == <<"undefined">>

Null == <<"null">>

Min(a, b) == IF a < b THEN a ELSE b

Max(a, b) == IF a > b THEN a ELSE b

\* Math.ceil(n / d) for n >= 0, d > 0
Ceil(n, d) == (n + d - 1) \div d

Exterior == <<"e","x","t","e","r","i","o","r">>

LivingRoom == <<"l","i","v","i","n","g","-","r","o","o","m">>

Kitchen == <<"k","i","t","c","h","e","n">>

Bedroom == <<"b","e","d","r","o","o","m">>

Bathroom == <<"b","a","t","h","r","o","o","m">>

Unknown == <<"u","n","k","n","o","w","n">>

\* a property every object literal inherits from Object.prototype
Constructor == <<"c","o","n","s","t","r","u","c","t","o","r">>

\* names that {}[name] resolves to an inherited (truthy, non-array) value
InheritedKeys == {Constructor, <<"t","o","S","t","r","i","n","g">>,
                  <<"v","a","l","u","e","O","f">>}

\* const categoryKeywords = { ... }
categoryKeywords(category) ==
    IF category = Exterior THEN
        << <<"e","x","t","e","r","i","o","r">>,
           <<"o","u","t","s","i","d","e">>,
           <<"f","r","o","n","t">>,
           <<"e","n","t","r","a","n","c","e">>,
           <<"p","o","o","l">>,
           <<"b","a","c","k","y","a","r","d">>,
           <<"o","u","t","d","o","o","r">>,
           <<"p","r","o","p","e","r","t","y">>,
           <<"h","o","m","e"," ","e","x","t","e","r","i","o","r">> >>
    ELSE IF category = LivingRoom THEN
        << <<"l","i","v","i","n","g"," ","r","o","o","m">>,
           <<"l","i","v","i","n","g"," ","a","r","e","a">>,
           <<"f","a","m","i","l","y"," ","r","o","o","m">>,
           <<"l","o","u","n","g","e">> >>
    ELSE IF category = Kitchen THEN
        << <<"k","i","t","c","h","e","n">>,
           <<"c","o","o","k">>,
           <<"a","p","p","l","i","a","n","c","e","s">>,
           <<"g","r","a","n","i","t","e">>,
           <<"c","o","u","n","t","e","r","t","o","p">>,
           <<"d","i","n","i","n","g">> >>
    ELSE IF category = Bedroom THEN
        << <<"b","e","d","r","o","o","m">>,
           <<"s","l","e","e","p">>,
           <<"r","e","s","t">>,
           <<"s","a","n","c","t","u","a","r","y">>,
           <<"r","e","t","r","e","a","t">>,
           <<"m","a","s","t","e","r"," ","b","e","d","r","o","o","m">> >>
    ELSE IF category = Bathroom THEN
        << <<"b","a","t","h","r","o","o","m">>,
           <<"b","a","t","h">>,
           <<"s","h","o","w","e","r">>,
           <<"v","a","n","i","t","y">>,
           <<"t","u","b">> >>
    ELSE <<>>

\* category.replace('-', ' '): the first hyphen only
RECURSIVE ReplaceFirstHyphen(_, _)
ReplaceFirstHyphen(c, p) ==
    IF p > Len(c) THEN c
    ELSE IF c[p] = "-" THEN [c EXCEPT ![p] = " "]
    ELSE ReplaceFirstHyphen(c, p + 1)

\* categoryKeywords[category] || [category.replace('-', ' ')]
keywordsOf(category) ==
    IF categoryKeywords(category) # <<>>
    THEN categoryKeywords(category)
    ELSE << ReplaceFirstHyphen(category, 1) >>

\* scriptLower.indexOf(keyword, pos), 0-based, -1 when there is none
indexOf(s, keyword, pos) ==
    LET q == Least({r \in (pos + 1)..Len(s) : MatchAt(s, r, keyword, FALSE)}
                   \cup {Len(s) + 1})
    IN  IF q > Len(s) THEN -1 ELSE q - 1

\* while ((pos = scriptLower.indexOf(keyword, pos)) !== -1) { ... }
RECURSIVE ScanKeyword(_, _, _, _)
ScanKeyword(s, keyword, pos, acc) ==
    LET p == indexOf(s, keyword, pos)
    IN  IF p = -1 THEN acc
        ELSE ScanKeyword(s, keyword, p + Len(keyword),
                 [earliestPosition |-> Min(acc.earliestPosition, p),
                  latestPosition   |-> Max(acc.latestPosition, p + Len(keyword))])

\* for (const keyword of keywords) { ... }
RECURSIVE ScanKeywords(_, _, _, _)
ScanKeywords(s, keywords, k, acc) ==
    IF k > Len(keywords) THEN acc
    ELSE ScanKeywords(s, keywords, k + 1, ScanKeyword(s, keywords[k], 0, acc))

\* JSON.parse(imageAnalysis) raises a SyntaxError
ParseFails(imageAnalysis) ==
    imageAnalysis.type = "string" /\ imageAnalysis.json = "error"

\* analysis[fileName] raises a TypeError: analysis is undefined or null
LookupFails(imageAnalysis) ==
    \/ imageAnalysis.type = "undefined"
    \/ imageAnalysis.type = "string" /\ imageAnalysis.json = "null"

\* (analysis[fileName] || {}).category || 'unknown'
categoryOf(imageAnalysis, file) ==
    IF /\ imageAnalysis.type = "string"
       /\ imageAnalysis.json = "object"
       /\ file.originalname \in DOMAIN imageAnalysis.entries
       /\ imageAnalysis.entries[file.originalname] # <<>>
    THEN imageAnalysis.entries[file.originalname]
    ELSE Unknown

\* the own keys of imagesByCategory in insertion order
RECURSIVE InsertionOrder(_, _, _, _)
InsertionOrder(files, imageAnalysis, k, acc) ==
    IF k > Len(files) THEN acc
    ELSE LET c == categoryOf(imageAnalysis, files[k])
         IN  InsertionOrder(files, imageAnalysis, k + 1,
                 IF \E j \in 1..Len(acc) : acc[j] = c THEN acc ELSE Append(acc, c))

\* a key that Object.entries lists as an integer index: canonical decimal
IsIndexKey(c) ==
    /\ Len(c) > 0
    /\ \A k \in 1..Len(c) : IsDigit(c[k])
    /\ (Len(c) = 1 \/ c[1] # "0")

DigitValue(d) == CHOOSE v \in 0..9 : <<"0","1","2","3","4","5","6","7","8","9">>[v + 1] = d

RECURSIVE KeyValue(_, _, _)
KeyValue(c, k, acc) ==
    IF k > Len(c) THEN acc ELSE KeyValue(c, k + 1, 10 * acc + DigitValue(c[k]))

\* insert key c into the ascending sequence of index keys
RECURSIVE InsertIndexKey(_, _, _)
InsertIndexKey(sorted, c, k) ==
    IF k > Len(sorted) THEN Append(sorted, c)
    ELSE IF KeyValue(c, 1, 0) < KeyValue(sorted[k], 1, 0)
         THEN Slice(sorted, 1, k - 1) \o <<c>> \o Slice(sorted, k, Len(sorted))
         ELSE InsertIndexKey(sorted, c, k + 1)

RECURSIVE SortIndexKeys(_, _, _)
SortIndexKeys(keys, k, acc) ==
    IF k > Len(keys) THEN acc
    ELSE SortIndexKeys(keys, k + 1,
             IF IsIndexKey(keys[k]) THEN InsertIndexKey(acc, keys[k], 1) ELSE acc)

\* Object.entries(imagesByCategory): index keys ascending, then the other
\* keys in insertion order
EntryOrder(keys) ==
    SortIndexKeys(keys, 1, <<>>) \o SelectSeq(keys, LAMBDA c : ~IsIndexKey(c))

\* imagesByCategory[category]
imagesOf(files, imageAnalysis, category) ==
    SelectSeq(files, LAMBDA f : categoryOf(imageAnalysis, f) = category)

\* one element of segments
Segment(files, scriptLower, totalChars, imageAnalysis, category) ==
    LET found == ScanKeywords(scriptLower, keywordsOf(category), 1,
                     [earliestPosition |-> 999999, latestPosition |-> -1])
        earliestPosition == IF found.earliestPosition = 999999
                            THEN totalChars ELSE found.earliestPosition
        latestPosition   == IF found.earliestPosition = 999999
                            THEN totalChars ELSE found.latestPosition
    IN  [category   |-> category,
         images     |-> imagesOf(files, imageAnalysis, category),
         startPos   |-> earliestPosition,
         endPos     |-> latestPosition,
         charLength |-> latestPosition - earliestPosition]

\* insert seg after every element whose startPos is not greater (stable)
RECURSIVE InsertSegment(_, _, _)
InsertSegment(sorted, seg, k) ==
    IF k > Len(sorted) THEN Append(sorted, seg)
    ELSE IF seg.startPos < sorted[k].startPos
         THEN Slice(sorted, 1, k - 1) \o <<seg>> \o Slice(sorted, k, Len(sorted))
         ELSE InsertSegment(sorted, seg, k + 1)

\* segments.sort((a, b) => a.startPos - b.startPos)
RECURSIVE SortSegments(_, _, _)
SortSegments(segments, k, acc) ==
    IF k > Len(segments) THEN acc
    ELSE SortSegments(segments, k + 1, InsertSegment(acc, segments[k], 1))

\* Math.max(3, Math.ceil(seg.charLength / 15))
segmentDuration(seg) == Max(3, Ceil(seg.charLength, 15))

\* segmentDuration / seg.images.length, kept as an exact fraction
durationPerImage(seg) == [num |-> segmentDuration(seg), den |-> Len(seg.images)]

\* a flattening that keeps one image of each segment
FlattenFirstImages(segments, k) ==
    [j \in k..Len(segments) |-> segments[j].images[1]]

\* segments.flatMap(seg => seg.images)
RECURSIVE FlattenImages(_, _)
FlattenImages(segments, k) ==
    IF k > Len(segments) THEN <<>>
    ELSE segments[k].images \o FlattenImages(segments, k + 1)

\* segments.forEach(seg => seg.images.forEach(img => timings.push(...)))
RECURSIVE Timings(_, _)
Timings(segments, k) ==
    IF k > Len(segments) THEN <<>>
    ELSE [j \in 1..Len(segments[k].images) |-> durationPerImage(segments[k])]
         \o Timings(segments, k + 1)

\* the sorted segments of a call that reaches the sort
SegmentsOf(files, script, imageAnalysis) ==
    LET scriptLower == toLowerCase(script)
        totalChars  == Len(script)
        keys        == EntryOrder(InsertionOrder(files, imageAnalysis, 1, <<>>))
        segments    == [k \in 1..Len(keys) |->
                           Segment(files, scriptLower, totalChars, imageAnalysis, keys[k])]
    IN  SortSegments(segments, 1, <<>>)

\* the call raises a TypeError instead of returning
AllocatorThrows(files, script, imageAnalysis) ==
    /\ ~ParseFails(imageAnalysis)
    /\ \/ script = Undefined
       \/ Len(files) > 0 /\ LookupFails(imageAnalysis)
       \/ \E k \in 1..Len(files) :
             categoryOf(imageAnalysis, files[k]) \in InheritedKeys

\* the result is [threw, orderedFiles, timed, durations]; timed = FALSE
\* stands for durations: null
segmentScriptAndMatchImages(files, script, imageAnalysis) ==
    IF ParseFails(imageAnalysis)
    THEN [threw |-> FALSE, orderedFiles |-> files, timed |-> FALSE, durations |-> <<>>]
    ELSE IF AllocatorThrows(files, script, imageAnalysis)
    THEN [threw |-> TRUE, orderedFiles |-> <<>>, timed |-> FALSE, durations |-> <<>>]
    ELSE LET segments == SegmentsOf(files, script, imageAnalysis)
         IN  [threw |-> FALSE,
              orderedFiles |-> FlattenImages(segments, 1),
              timed |-> TRUE,
              durations |-> Timings(segments, 1)]


(***************************************************************************)
(* Exact arithmetic on durations: a duration is a fraction [num, den] of   *)
(* seconds (the source divides a whole number of seconds by a count).      *)
(***************************************************************************)
RECURSIVE GCD(_, _)
GCD(a, b) == IF b = 0 THEN a ELSE GCD(b, a % b)

Reduce(q) ==
    LET g == GCD(q.num, q.den)
    IN  IF g = 0 THEN q ELSE [num |-> q.num \div g, den |-> q.den \div g]

Whole(n) == [num |-> n, den |-> 1]

\* a + b
Plus(a, b) == Reduce([num |-> a.num * b.den + b.num * a.den, den |-> a.den * b.den])

\* a / n
Over(a, n) == Reduce([num |-> a.num, den |-> a.den * n])

\* the accumulator of durations.reduce((a, b) => a + b, 0) in exact
\* fractions: the initial 0 and the value after each callback
RECURSIVE ExactSums(_, _, _)
ExactSums(durations, k, sums) ==
    IF Len(sums) > Len(durations) THEN sums
    ELSE ExactSums(durations, k + 1, Append(sums, Plus(sums[k], durations[k])))

\* the sum of durations[k], durations[k + 1], ...
SumDurations(durations, k) ==
    LET rest == SubSeq(durations, k, Len(durations))
    IN  ExactSums(rest, 1, <<Whole(0)>>)[Len(rest) + 1]

(***************************************************************************)
(* JavaScript numbers.  Where rounding decides a result the durations are *)
(* computed as the runtime computes them, in IEEE 754 doubles: 53          *)
(* significant bits, round to nearest, ties to even.  A non-negative       *)
(* number below 2^IntBits is written in binary, as the set of the          *)
(* positions that hold a one, the bit at position p weighing 2^p.          *)
(***************************************************************************)
\* the significant bits of a double
Significand == 53

\* bit positions above and below the binary point
IntBits == 8

FracBits == 62

Positions == (0 - FracBits)..(IntBits - 1)

Zero == {}

\* the integer n
FromInt(n) == {p \in 0..(IntBits - 1) : (n \div 2^p) % 2 = 1}

Bit(x, p) == IF p \in x THEN 1 ELSE 0

\* the remainder of 2^k divided by n
RECURSIVE PowerOfTwoMod(_, _)
PowerOfTwoMod(k, n) ==
    IF k <= 15 THEN 2^k % n ELSE (PowerOfTwoMod(k - 15, n) * (2^15 % n)) % n

\* the remainder of a * 2^k divided by n
Remainder(a, n, k) == ((a % n) * PowerOfTwoMod(k, n)) % n

\* the binary expansion of a / n, cut after FracBits places
QuotientBits(a, n) ==
    {p \in Positions : IF p >= 0 THEN ((a \div n) \div 2^p) % 2 = 1
                       ELSE (2 * Remainder(a, n, (0 - p) - 1)) \div n = 1}

\* x + y, exactly: a carry enters position p when a lower position holds
\* two ones and every position between holds exactly one
AddBits(x, y) ==
    {p \in Positions :
        LET carry == \E j \in x \cap y :
                        j < p /\ \A m \in (j + 1)..(p - 1) : Bit(x, m) + Bit(y, m) = 1
        IN  (Bit(x, p) + Bit(y, p) + IF carry THEN 1 ELSE 0) % 2 = 1}

\* x - y, exactly, for x >= y: position p lends when a lower position
\* holds 0 over 1 and every position between holds equal bits
SubBits(x, y) ==
    {p \in Positions :
        LET borrow == \E j \in y \ x :
                         j < p /\ \A m \in (j + 1)..(p - 1) : Bit(x, m) = Bit(y, m)
        IN  (2 + Bit(x, p) - Bit(y, p) - IF borrow THEN 1 ELSE 0) % 2 = 1}

\* x < y
Less(x, y) == \E p \in y \ x : \A q \in (p + 1)..(IntBits - 1) : Bit(x, q) = Bit(y, q)

\* the double nearest to x, ties to even; sticky tells that the number
\* written by x has further nonzero bits below the last position
RoundToDouble(x, sticky) ==
    IF x = Zero THEN Zero
    ELSE LET last  == Greatest(x) - (Significand - 1)
             kept  == {p \in x : p >= last}
             half  == (last - 1) \in x
             below == sticky \/ \E p \in x : p < last - 1
         IN  IF half /\ (below \/ last \in x) THEN AddBits(kept, {last}) ELSE kept

\* a / n for integers a >= 0 and n > 0
DoubleDiv(a, n) == RoundToDouble(QuotientBits(a, n), Remainder(a, n, FracBits) # 0)

\* x + y for doubles
DoubleAdd(x, y) == RoundToDouble(AddBits(x, y), FALSE)

\* x - y for doubles when the difference needs no rounding
DoubleMinus(x, y) ==
    [negative |-> Less(x, y),
     bits     |-> IF Less(x, y) THEN SubBits(y, x) ELSE SubBits(x, y)]

\* the accumulator of durations.reduce((a, b) => a + b, 0) over the
\* doubles num / den: the initial 0 and the value after each callback
RECURSIVE PartialSums(_, _, _)
PartialSums(durations, k, sums) ==
    IF Len(sums) > Len(durations) THEN sums
    ELSE PartialSums(durations, k + 1,
             Append(sums, DoubleAdd(sums[k], DoubleDiv(durations[k].num, durations[k].den))))

\* the first k durations added up
DoubleSum(durations, k) == PartialSums(durations, 1, <<Zero>>)[k + 1]

(***************************************************************************)
(* POST /api/generate-video.                                               *)
(*                                                                         *)
(* One run of the handler.  pc names the await the handler is suspended    *)
(* at; the code between two awaits runs to completion in one step.         *)
(***************************************************************************)
VARIABLES
    uploads,            \* req.files as multer stored them
    script,             \* req.body.script
    imageAnalysis,      \* req.body.imageAnalysis
    music,              \* req.body.music
    musicVolume,        \* req.body.musicVolume
    musicDir,           \* the file names in the music directory
    category,           \* req.body.category of an analyze-image request
    pc,                 \* "uploaded", the awaited call, "finalized" or "failed"
    reqFiles,           \* req.files
    plan,               \* the result of segmentScriptAndMatchImages
    cleanedScript,      \* cleanScript(script)
    recleaned,          \* cleanScript(cleanedScript)
    i,                  \* the loop index of the normalization / clip loop
    estimatedDuration,  \* the duration of the video
    disk,               \* the paths that exist
    calls,              \* the external calls issued so far, in order
    error,              \* error.message of the error the catch block caught
    responses,          \* the responses sent on res
    imagePath,          \* analyze-image: let imagePath
    attempt,            \* analyze-image: the retry loop's counter
    lastError,          \* analyze-image: let lastError
    uploadedFiles,      \* UploadSection: the uploadedFiles state
    analysis,           \* analyzeImages: const analysis
    errorCount,         \* analyzeImages: let errorCount
    analysisError,      \* UploadSection: the analysisError state
    localStorage,       \* window.localStorage: key -> stored value
    closure,            \* the state the running async handler was created with
    now,                \* the value Date.now() returns
    timestamp,          \* per run: const timestamp, 0 before it is taken
    running             \* the runs between their timestamp and their response

\* the fields of the request and the music directory
inputs == <<uploads, script, imageAnalysis, music, musicVolume, musicDir, category>>

\* the locals of the analyze-image handler
analyzer == <<imagePath, attempt, lastError>>

\* the state of the upload component
browser == <<uploadedFiles, analysis, errorCount, analysisError, localStorage, closure>>

\* the clock and the runs that read it
clock == <<now, timestamp, running>>

\* the locals of the generate-video handler that hold the plan and the script
pipeline == <<reqFiles, plan, cleanedScript, recleaned, estimatedDuration>>

vars == <<inputs, analyzer, browser, clock, pc, reqFiles, plan,
          cleanedScript, recleaned, i, estimatedDuration, disk, calls, error, responses>>

\* paths of one run; <<kind, n>>
voiceoverPath == <<"voice", 0>>

tempImageDir == <<"imgsDir", 0>>

clipDir == <<"clipsDir", 0>>

concatListPath == <<"concat", 0>>

videoNoAudioPath == <<"silent", 0>>

finalVideoPath == <<"final", 0>>

Digits == <<"0","1","2","3","4","5","6","7","8","9">>

\* String(n): the decimal digits of a non-negative integer
RECURSIVE String(_)
String(n) == IF n < 10 THEN <<Digits[n + 1]>> ELSE String(n \div 10) \o <<Digits[(n % 10) + 1]>>

\* s.padStart(targetLength, fill) for a one-character fill
padStart(s, targetLength, fill) ==
    [k \in 1..(targetLength - Len(s)) |-> fill] \o s

\* path.join(tempImageDir, `img${String(i).padStart(4, '0')}.png`)
imgPath(k) == <<"img", padStart(String(k), 4, "0")>>

\* path.join(clipDir, `clip${String(i).padStart(4, '0')}.mp4`)
clipPath(k) == <<"clip", padStart(String(k), 4, "0")>>

\* the paths of the files of a list
PathsOf(files) == {files[k].path : k \in 1..Len(files)}

NoPlan == [threw |-> FALSE, orderedFiles |-> <<>>, timed |-> FALSE, durations |-> <<>>]

\* an external call: the speech API or one ffmpeg command
Call(cmd, input, output, t, mode) ==
    [cmd |-> cmd, input |-> input, output |-> output, t |-> t, mode |-> mode,
     result |-> "pending", error |-> ""]

\* the awaited call (the last one issued) resolves
Settle(log, result) == [log EXCEPT ![Len(log)].result = result]

\* the awaited call rejects with an error carrying message
Reject(log, message) ==
    [log EXCEPT ![Len(log)].result = "failed", ![Len(log)].error = message]

\* error.message of a rejected speech request
SpeechErrors == {"429 You exceeded your current quota", "Connection error."}

\* error.message of a rejected execPromise
ExecErrors == {"Command failed: ffmpeg", "ffmpeg: not found"}

\* error.message of the TypeError raised by the allocator or by cleanScript
TypeErrorMessage == "Cannot read properties of undefined"

\* a catch block that deletes no upload
CatchCleanupNone(d, files) == d

\* catch block: req.files.forEach(file => unlinkSync(file.path))
CatchCleanup(d, files) == d \ PathsOf(files)

\* a response that hides the message of the error
ErrorResponseGeneric(message) ==
    [status |-> 500, error |-> "Failed to generate video", details |-> "Internal error"]

\* catch block: res.status(500).json({ error, details })
ErrorResponse(message) ==
    [status |-> 500, error |-> "Failed to generate video", details |-> message]

\* res.json({ success: true, videoFile, duration, ... }); duration is
\* estimatedDuration as an exact fraction, seconds the double that is sent
SuccessResponse(duration, seconds) ==
    [status |-> 200, success |-> TRUE, videoFile |-> finalVideoPath,
     duration |-> duration, seconds |-> seconds]

\* the handler throws: the catch block runs and the run is over
Fail(d, message) ==
    /\ error' = message
    /\ disk' = CatchCleanup(d, reqFiles)
    /\ responses' = Append(responses, ErrorResponse(message))
    /\ pc' = "failed"

\* imageDurations ? imageDurations.reduce(...) : Math.max(10, Math.ceil(cleanedScript.length / 15))
EstimatedDuration(p, cleaned) ==
    IF p.timed THEN SumDurations(p.durations, 1)
    ELSE Whole(Max(10, Ceil(Len(cleaned), 15)))

\* estimatedDuration as the double the runtime holds
EstimatedSeconds(p, cleaned) ==
    IF p.timed THEN DoubleSum(p.durations, Len(p.durations))
    ELSE FromInt(Max(10, Ceil(Len(cleaned), 15)))

\* `${estimatedDuration - 3}` of the afade filter, as the double the
\* runtime computes
FadeStart(p, cleaned) == DoubleMinus(EstimatedSeconds(p, cleaned), FromInt(3))

\* imageDurations ? imageDurations[i] : (estimatedDuration / req.files.length)
ClipDuration(p, k, estimated, n) ==
    IF p.timed THEN Reduce(p.durations[k + 1]) ELSE Over(estimated, n)

\* `ffmpeg -i "${req.files[i].path}" -y "${targetPath}"`
ConvertCall(k) == Call("convert", reqFiles[k + 1].path, imgPath(k), Whole(0), "png")

\* `ffmpeg -r 1 -i "${imgPath}" -t ${duration} ... -y "${clipPath}"`
ClipCall(k) ==
    Call("clip", imgPath(k), clipPath(k),
         ClipDuration(plan, k, estimatedDuration, Len(reqFiles)), "h264")

\* `ffmpeg -f concat -safe 0 -i "${concatListPath}" -c copy -y "${videoNoAudioPath}"`
\* list is concatContent, the lines of the manifest written to concatListPath
ConcatCall ==
    Call("concat", concatListPath, videoNoAudioPath, Whole(0), "copy")
    @@ [list |-> [k \in 1..Len(reqFiles) |-> clipPath(k - 1)]]

\* const musicFiles = { upbeat: 'upbeat.mp3', ... }[m]; "" stands for undefined
musicFiles(m) ==
    CASE m = "upbeat" -> "upbeat.mp3"
      [] m = "corporate" -> "corporate.mp3"
      [] m = "calm" -> "calm.mp3"
      [] m = "inspiring" -> "inspiring.mp3"
      [] OTHER -> ""

\* the names that musicFiles[name] resolves to an inherited function
InheritedNames == {"constructor", "toString", "valueOf"}

\* path.join(musicDir, f) throws for an f that is not a string
PathErrorMessage == "The \"path\" argument must be of type string"

\* path.join(musicDir, musicFiles[music] || 'upbeat.mp3'), as a name in musicDir
musicPath(m) == IF musicFiles(m) = "" THEN "upbeat.mp3" ELSE musicFiles(m)

\* parseInt(v): white space and one sign are skipped, the longest run of
\* decimal digits is read; NaN when there is none (v holds no 0x prefix)
parseInt(v) ==
    LET p == SkipSpace(v, 1)
        signed == p <= Len(v) /\ v[p] \in {"+", "-"}
        q == IF signed THEN p + 1 ELSE p
        e == SkipDigits(v, q)
    IN  IF v = Undefined \/ e = q
        THEN [nan |-> TRUE, value |-> 0]
        ELSE [nan |-> FALSE,
              value |-> (IF signed /\ v[p] = "-" THEN -1 ELSE 1)
                            * KeyValue(Slice(v, q, e - 1), 1, 0)]

\* a gain without the default: parseInt(musicVolume) / 100, NaN read as 0
volumeDecimalNoDefault(v) == Over(Whole(parseInt(v).value), 100)

\* (parseInt(musicVolume) || 15) / 100
volumeDecimal(v) ==
    LET n == parseInt(v)
    IN  Over(Whole(IF n.nan \/ n.value = 0 THEN 15 ELSE n.value), 100)

\* a choice of the mix that does not look at the music directory
MusicMixedUnchecked(m, dir) == m # "" /\ m # "none"

\* if (music && music !== 'none') ... if (fs.existsSync(musicPath))
MusicMixed(m, dir) == m # "" /\ m # "none" /\ musicPath(m) \in dir

\* ffmpegAddAudio: the music mix (volume, afade, amix over three inputs), or
\* the voiceover-only mux of two inputs
MixCall ==
    Call("mix", videoNoAudioPath, finalVideoPath, Whole(0),
         IF MusicMixed(music, musicDir) THEN "music" ELSE "voiceover")
    @@ (IF MusicMixed(music, musicDir)
        THEN [audio |-> <<musicPath(music), voiceoverPath>>,
              volume |-> volumeDecimal(musicVolume), voice |-> Whole(1),
              fade |-> [st |-> FadeStart(plan, cleanedScript), d |-> 3]]
        ELSE [audio |-> <<voiceoverPath>>])

\* the lines up to the first await: allocator, cleanScript, speech request
StartRun ==
    /\ pc = "uploaded"
    /\ LET result == segmentScriptAndMatchImages(reqFiles, script, imageAnalysis)
       IN  /\ plan' = result
           /\ IF result.threw \/ script = Undefined
              THEN /\ Fail(disk, TypeErrorMessage)
                   /\ UNCHANGED <<reqFiles, cleanedScript, calls>>
              ELSE /\ reqFiles' = result.orderedFiles
                   /\ cleanedScript' = cleanScript(script)
                   /\ calls' = Append(calls, Call("tts", <<"script", 0>>, voiceoverPath,
                                                  Whole(0), "mp3"))
                   /\ pc' = "voiceover"
                   /\ UNCHANGED <<disk, error, responses>>
    /\ UNCHANGED <<inputs, analyzer, browser, clock, recleaned, i, estimatedDuration>>

\* the speech request resolves: the voiceover is written, the first image
\* conversion is started
VoiceoverReturns ==
    /\ pc = "voiceover"
    /\ disk' = disk \cup {voiceoverPath, tempImageDir}
    /\ estimatedDuration' = EstimatedDuration(plan, cleanedScript)
    /\ i' = 0
    /\ calls' = Append(Settle(calls, "ok"), ConvertCall(0))
    /\ pc' = "normalize"
    /\ UNCHANGED <<inputs, analyzer, browser, clock, reqFiles, plan,
                   cleanedScript, recleaned, error, responses>>

\* the speech request rejects
VoiceoverFails ==
    /\ pc = "voiceover"
    /\ \E message \in SpeechErrors :
          /\ calls' = Reject(calls, message)
          /\ Fail(disk, message)
    /\ UNCHANGED <<inputs, analyzer, browser, clock, reqFiles, plan,
                   cleanedScript, recleaned, i, estimatedDuration>>

\* a conversion loop that stops after the first image
ConvertReturnsOnce ==
    /\ pc = "normalize"
    /\ disk' = disk \cup {imgPath(i), clipDir}
    /\ i' = 0
    /\ calls' = Append(Settle(calls, "ok"), ClipCall(0))
    /\ pc' = "clips"
    /\ UNCHANGED <<inputs, analyzer, browser, clock, reqFiles, plan,
                   cleanedScript, recleaned, estimatedDuration, error, responses>>

\* the conversion of image i resolves: the next conversion, or the first clip
ConvertReturns ==
    /\ pc = "normalize"
    /\ IF i + 1 < Len(reqFiles)
       THEN /\ disk' = disk \cup {imgPath(i)}
            /\ i' = i + 1
            /\ calls' = Append(Settle(calls, "ok"), ConvertCall(i + 1))
            /\ pc' = "normalize"
       ELSE /\ disk' = disk \cup {imgPath(i), clipDir}
            /\ i' = 0
            /\ calls' = Append(Settle(calls, "ok"), ClipCall(0))
            /\ pc' = "clips"
    /\ UNCHANGED <<inputs, analyzer, browser, clock, reqFiles, plan,
                   cleanedScript, recleaned, estimatedDuration, error, responses>>

\* the conversion of image i rejects; ffmpeg may have left its output file
ConvertFails ==
    /\ pc = "normalize"
    /\ \E message \in ExecErrors, partial \in BOOLEAN :
          /\ calls' = Reject(calls, message)
          /\ Fail(IF partial THEN disk \cup {imgPath(i)} ELSE disk, message)
    /\ UNCHANGED <<inputs, analyzer, browser, clock, reqFiles, plan,
                   cleanedScript, recleaned, i, estimatedDuration>>

\* the clip of image i resolves: the next clip, or the manifest and the concat
ClipReturns ==
    /\ pc = "clips"
    /\ IF i + 1 < Len(reqFiles)
       THEN /\ disk' = disk \cup {clipPath(i)}
            /\ i' = i + 1
            /\ calls' = Append(Settle(calls, "ok"), ClipCall(i + 1))
            /\ pc' = "clips"
       ELSE /\ disk' = disk \cup {clipPath(i), concatListPath}
            /\ i' = i + 1
            /\ calls' = Append(Settle(calls, "ok"), ConcatCall)
            /\ pc' = "concat"
    /\ UNCHANGED <<inputs, analyzer, browser, clock, reqFiles, plan,
                   cleanedScript, recleaned, estimatedDuration, error, responses>>

\* a rejected clip whose error is swallowed: the loop goes on
ClipFailsIgnored ==
    /\ pc = "clips"
    /\ \E message \in ExecErrors :
          calls' = Append(Reject(calls, message),
                          IF i + 1 < Len(reqFiles) THEN ClipCall(i + 1) ELSE ConcatCall)
    /\ disk' = IF i + 1 < Len(reqFiles) THEN disk ELSE disk \cup {concatListPath}
    /\ i' = i + 1
    /\ pc' = IF i + 1 < Len(reqFiles) THEN "clips" ELSE "concat"
    /\ UNCHANGED <<inputs, analyzer, browser, clock, reqFiles, plan,
                   cleanedScript, recleaned, estimatedDuration, error, responses>>

\* the clip of image i rejects
ClipFails ==
    /\ pc = "clips"
    /\ \E message \in ExecErrors, partial \in BOOLEAN :
          /\ calls' = Reject(calls, message)
          /\ Fail(IF partial THEN disk \cup {clipPath(i)} ELSE disk, message)
    /\ UNCHANGED <<inputs, analyzer, browser, clock, reqFiles, plan,
                   cleanedScript, recleaned, i, estimatedDuration>>

\* readdirSync + unlinkSync of both scratch directories, rmdirSync,
\* unlinkSync(concatListPath)
RemoveScratch(d) ==
    {p \in d : p[1] \notin {"img", "imgsDir", "clip", "clipsDir", "concat"}}

\* the concat resolves: the scratch directories are removed, the mix is started
\* (path.join throws for a selection that names an inherited function)
ConcatReturns ==
    /\ pc = "concat"
    /\ IF music # "" /\ music # "none" /\ music \in InheritedNames
       THEN /\ calls' = Settle(calls, "ok")
            /\ Fail(RemoveScratch(disk \cup {videoNoAudioPath}), PathErrorMessage)
       ELSE /\ disk' = RemoveScratch(disk \cup {videoNoAudioPath})
            /\ calls' = Append(Settle(calls, "ok"), MixCall)
            /\ pc' = "mix"
            /\ UNCHANGED <<error, responses>>
    /\ UNCHANGED <<inputs, analyzer, browser, clock, reqFiles, plan,
                   cleanedScript, recleaned, i, estimatedDuration>>

\* the concat rejects
ConcatFails ==
    /\ pc = "concat"
    /\ \E message \in ExecErrors, partial \in BOOLEAN :
          /\ calls' = Reject(calls, message)
          /\ Fail(IF partial THEN disk \cup {videoNoAudioPath} ELSE disk, message)
    /\ UNCHANGED <<inputs, analyzer, browser, clock, reqFiles, plan,
                   cleanedScript, recleaned, i, estimatedDuration>>

\* a final cleanup that leaves the uploads
FinalCleanupKeepsUploads(d, files) == d \ {videoNoAudioPath, voiceoverPath}

\* Step 5: unlinkSync of the silent video, the voiceover and the uploads
FinalCleanup(d, files) == (d \ {videoNoAudioPath, voiceoverPath}) \ PathsOf(files)

\* the mix resolves: final cleanup and the success response
MixReturns ==
    /\ pc = "mix"
    /\ disk' = FinalCleanup(disk \cup {finalVideoPath}, reqFiles)
    /\ calls' = Settle(calls, "ok")
    /\ responses' = Append(responses,
                     SuccessResponse(estimatedDuration,
                                     EstimatedSeconds(plan, cleanedScript)))
    /\ pc' = "finalized"
    /\ UNCHANGED <<inputs, analyzer, browser, clock, reqFiles, plan,
                   cleanedScript, recleaned, i, estimatedDuration, error>>

\* the mix rejects
MixFails ==
    /\ pc = "mix"
    /\ \E message \in ExecErrors, partial \in BOOLEAN :
          /\ calls' = Reject(calls, message)
          /\ Fail(IF partial THEN disk \cup {finalVideoPath} ELSE disk, message)
    /\ UNCHANGED <<inputs, analyzer, browser, clock, reqFiles, plan,
                   cleanedScript, recleaned, i, estimatedDuration>>


(***************************************************************************)
(* app.post('/api/analyze-image', upload.single('image'), ...)             *)
(*                                                                         *)
(* uploads holds req.file (no element when no file was sent).  pc is       *)
(* "received", then "vision" while the vision request is awaited and       *)
(* "backoff" while the timer is awaited, then "answered" or "failed".      *)
(***************************************************************************)
\* extractFeatures: const keywords
featureKeywords ==
    << <<"m","o","d","e","r","n">>,
       <<"s","p","a","c","i","o","u","s">>,
       <<"n","a","t","u","r","a","l"," ","l","i","g","h","t">>,
       <<"h","a","r","d","w","o","o","d">>,
       <<"g","r","a","n","i","t","e">>,
       <<"s","t","a","i","n","l","e","s","s"," ","s","t","e","e","l">>,
       <<"u","p","d","a","t","e","d">>,
       <<"l","u","x","u","r","y">>,
       <<"c","o","z","y">>,
       <<"b","r","i","g","h","t">>,
       <<"o","p","e","n"," ","c","o","n","c","e","p","t">>,
       <<"h","i","g","h"," ","c","e","i","l","i","n","g","s">>,
       <<"b","a","c","k","y","a","r","d">>,
       <<"p","o","o","l">>,
       <<"f","i","r","e","p","l","a","c","e">>,
       <<"b","a","l","c","o","n","y">>,
       <<"p","a","r","k","i","n","g">>,
       <<"s","t","o","r","a","g","e">>,
       <<"e","q","u","i","p","m","e","n","t">>,
       <<"f","a","c","i","l","i","t","y">>,
       <<"a","m","e","n","i","t","y">>,
       <<"p","r","e","m","i","u","m">>,
       <<"q","u","a","l","i","t","y">>,
       <<"d","e","s","i","g","n">> >>

\* keywords.forEach(keyword => { if (lowerText.includes(keyword) && ...) found.push(keyword) })
RECURSIVE foundFeatures(_, _, _)
foundFeatures(lowerText, k, found) ==
    IF k > Len(featureKeywords) THEN found
    ELSE foundFeatures(lowerText, k + 1,
             IF indexOf(lowerText, featureKeywords[k], 0) # -1
                /\ \A j \in 1..Len(found) : found[j] # featureKeywords[k]
             THEN Append(found, featureKeywords[k]) ELSE found)

\* extractFeatures(text): found.slice(0, 5)
extractFeatures(text) ==
    LET found == foundFeatures(toLowerCase(text), 1, <<>>)
    IN  Slice(found, 1, Min(5, Len(found)))

\* let retries = 3
retries == 3

\* response.choices[0].message.content of a resolved vision request
VisionContents ==
    { <<"A"," ","M","o","d","e","r","n"," ","k","i","t","c","h","e","n",","," ",
        "g","r","a","n","i","t","e",".">>,
      <<"A"," ","r","o","o","m",".">> }

\* openai.chat.completions.create({ model: 'gpt-4o', ... }) for the prompt
\* that names category.replace('-', ' ')
VisionCall(path) ==
    Call("vision", path, ReplaceFirstHyphen(category, 1), Whole(0), "gpt-4o")

\* setTimeout(resolve, waitTime) with waitTime = 1000 * attempt
BackoffCall == Call("setTimeout", <<>>, <<>>, Whole(1000 * attempt), "ms")

\* an unlink that is never made
UnlinkUploadSkipped(d, path) == d

\* if (imagePath && fs.existsSync(imagePath)) fs.unlinkSync(imagePath)
UnlinkUpload(d, path) == IF path # Null THEN d \ {path} ELSE d

\* catch block of analyze-image: unlink and res.status(500).json(...)
AnalyzeFail(path, message) ==
    /\ error' = message
    /\ disk' = UnlinkUpload(disk, path)
    /\ responses' = Append(responses,
           [status |-> 500, error |-> "Failed to analyze image", details |-> message])
    /\ pc' = "failed"

\* the lines up to the first await: the file checks, the prompt, the first
\* vision request
AnalyzeImage ==
    /\ pc = "received"
    /\ imagePath' = IF uploads = <<>> THEN Null ELSE uploads[1].path
    /\ IF uploads = <<>>
       THEN AnalyzeFail(Null, "No file uploaded") /\ UNCHANGED <<attempt, calls>>
       ELSE IF uploads[1].path \notin disk
       THEN AnalyzeFail(uploads[1].path, "Uploaded file not found on disk") /\ UNCHANGED <<attempt, calls>>
       ELSE IF category = Undefined
       THEN AnalyzeFail(uploads[1].path, TypeErrorMessage) /\ UNCHANGED <<attempt, calls>>
       ELSE /\ attempt' = 1
            /\ calls' = Append(calls, VisionCall(uploads[1].path))
            /\ pc' = "vision"
            /\ UNCHANGED <<disk, error, responses>>
    /\ UNCHANGED <<inputs, browser, clock, pipeline, i, lastError>>

\* a vision request that resolves and is made again all the same
VisionReturnsAndRetries ==
    /\ pc = "vision"
    /\ \E content \in VisionContents :
          calls' = Append([calls EXCEPT ![Len(calls)].result = "ok",
                                        ![Len(calls)].output = content], VisionCall(imagePath))
    /\ attempt' = attempt + 1
    /\ UNCHANGED <<inputs, browser, clock, pipeline, i, lastError, imagePath, pc,
                   disk, error, responses>>

\* the vision request resolves: break, extractFeatures, unlink, res.json
VisionReturns ==
    /\ pc = "vision"
    /\ \E content \in VisionContents :
          /\ calls' = [calls EXCEPT ![Len(calls)].result = "ok",
                                    ![Len(calls)].output = content]
          /\ responses' = Append(responses,
                 [status |-> 200, analysis |-> content,
                  features |-> extractFeatures(content), category |-> category])
    /\ disk' = UnlinkUpload(disk, imagePath)
    /\ pc' = "answered"
    /\ UNCHANGED <<inputs, browser, clock, pipeline, i, lastError, imagePath, attempt,
                   error>>

\* the vision request rejects: the timer is started, or after the last attempt
\* the loop ends and lastError is thrown
VisionFails ==
    /\ pc = "vision"
    /\ \E message \in SpeechErrors :
          /\ lastError' = message
          /\ IF attempt < retries
             THEN /\ calls' = Append(Reject(calls, message), BackoffCall)
                  /\ pc' = "backoff"
                  /\ UNCHANGED <<attempt, disk, error, responses>>
             ELSE /\ calls' = Reject(calls, message)
                  /\ attempt' = attempt + 1
                  /\ AnalyzeFail(imagePath, message)
    /\ UNCHANGED <<inputs, browser, clock, pipeline, i, imagePath>>

\* the timer fires: the next attempt
BackoffElapses ==
    /\ pc = "backoff"
    /\ attempt' = attempt + 1
    /\ calls' = Append(Settle(calls, "ok"), VisionCall(imagePath))
    /\ pc' = "vision"
    /\ UNCHANGED <<inputs, browser, clock, pipeline, i, lastError, imagePath, disk,
                   error, responses>>

(***************************************************************************)
(* Two generate-video requests and the clock.  A run reads Date.now() once *)
(* and derives the name of every file it writes from the value.            *)
(***************************************************************************)
\* the largest value of the clock
MaxClock == 6

\* the two requests
Runs == {1, 2}

\* voice-${timestamp}.mp3, imgs-${timestamp}, clips-${timestamp},
\* concat-${timestamp}.txt, video-no-audio-${timestamp}.mp4, ad-${timestamp}.mp4
RunPaths(t) == {<<kind, t>> : kind \in {"voice", "imgsDir", "clipsDir", "concat", "silent", "final"}}

\* a millisecond passes
Tick ==
    /\ now < MaxClock
    /\ now' = now + 1
    /\ UNCHANGED <<inputs, analyzer, browser, pipeline, timestamp, running, pc, i, disk,
                   calls, error, responses>>

\* a run reaches const timestamp = Date.now()
TakeTimestamp ==
    /\ \E r \in Runs :
          /\ timestamp[r] = 0
          /\ timestamp' = [timestamp EXCEPT ![r] = now]
          /\ running' = running \cup {r}
    /\ UNCHANGED <<inputs, analyzer, browser, pipeline, now, pc, i, disk, calls, error,
                   responses>>

\* a run sends its response
RunEnds ==
    /\ \E r \in running : running' = running \ {r}
    /\ UNCHANGED <<inputs, analyzer, browser, pipeline, now, timestamp, pc, i, disk,
                   calls, error, responses>>

(***************************************************************************)
(* UploadSection.analyzeImages: one POST /api/analyze-image per uploaded   *)
(* file, in order.  i is the place of the file whose request is awaited;   *)
(* pc is "idle", "analyzing" or "analyzed"; "scripting" and "scripted"     *)
(* for a script request, "sending" and "generated" for the video request.  *)
(* One analysis is followed: analyzeImages starts from "idle" only.        *)
(***************************************************************************)
\* the most files the upload component holds
MaxBatch == 3

\* axios.post('/api/analyze-image', formData) with file.category || 'general'
PostCall(file) ==
    Call("post", file.name, <<>>, Whole(0),
         IF file.category = <<>> THEN <<"g","e","n","e","r","a","l">> ELSE file.category)

\* analysis[name] = entry
Put(mapping, name, entry) ==
    [n \in DOMAIN mapping \cup {name} |-> IF n = name THEN entry ELSE mapping[n]]

\* localStorage.removeItem(key); delete updated[fileName]
Remove(mapping, name) == [n \in DOMAIN mapping \ {name} |-> mapping[n]]

\* JSON.stringify(mapping)
stringify(mapping) == [type |-> "string", json |-> "object", entries |-> mapping]

\* the state a handler created in the current render sees for as long as it runs
Capture(handler) ==
    [handler |-> handler, uploadedFiles |-> uploadedFiles,
     imageAnalysis |-> imageAnalysis, script |-> script]

\* handleGenerate, Step 3: axios.post('/api/generate-video', formData) with the
\* files, the script and JSON.stringify(imageAnalysis) of the handler's render
VideoPost(seen) ==
    Call("post-video", seen.uploadedFiles, <<>>, Whole(0), "multipart")
    @@ [script |-> seen.script, imageAnalysis |-> stringify(seen.imageAnalysis)]

\* the end of a loop body: the request of the next file, or after the last
\* file setAnalysisError (when errorCount > 0), setImageAnalysis(analysis) and
\* localStorage.setItem; handleGenerate, which awaited the batch, goes on to
\* its Step 3 at once (its script is not blank: Step 2 is skipped)
NextFile(log, count) ==
    IF i < Len(closure.uploadedFiles)
    THEN /\ i' = i + 1
         /\ calls' = Append(log, PostCall(closure.uploadedFiles[i + 1]))
         /\ pc' = "analyzing"
         /\ UNCHANGED <<imageAnalysis, analysisError, localStorage>>
    ELSE /\ i' = i + 1
         /\ analysisError' = IF count > 0
                             THEN <<count, "of", Len(closure.uploadedFiles), "failed">>
                             ELSE analysisError
         /\ imageAnalysis' = analysis'
         /\ localStorage' = Put(localStorage, "imageAnalysis", stringify(analysis'))
         /\ IF closure.handler = "handleGenerate"
            THEN calls' = Append(log, VideoPost(closure)) /\ pc' = "sending"
            ELSE calls' = log /\ pc' = "analyzed"

\* analyzeImages up to the first await
analyzeImages ==
    /\ pc = "idle"
    /\ uploadedFiles # <<>>
    /\ closure' = Capture("analyzeImages")
    /\ analysisError' = Null
    /\ analysis' = <<>>
    /\ errorCount' = 0
    /\ i' = 1
    /\ calls' = Append(calls, PostCall(uploadedFiles[1]))
    /\ pc' = "analyzing"
    /\ UNCHANGED <<inputs, analyzer, clock, pipeline, uploadedFiles, localStorage, disk,
                   error, responses>>

\* the request resolves with { analysis, features, category }
PostReturns ==
    /\ pc = "analyzing"
    /\ \E content \in VisionContents :
          analysis' = Put(analysis, closure.uploadedFiles[i].name,
                          [category |-> closure.uploadedFiles[i].category,
                           description |-> content,
                           features |-> extractFeatures(content),
                           error |-> FALSE])
    /\ NextFile(Settle(calls, "ok"), errorCount)
    /\ UNCHANGED <<uploads, script, music, musicVolume, musicDir, category,
                   analyzer, clock, pipeline, uploadedFiles, errorCount, closure, disk,
                   error, responses>>

\* the request rejects: the catch block counts it and stores a flagged entry
PostFails ==
    /\ pc = "analyzing"
    /\ errorCount' = errorCount + 1
    /\ \E message \in SpeechErrors :
          /\ analysis' = Put(analysis, closure.uploadedFiles[i].name,
                             [category |-> closure.uploadedFiles[i].category,
                              description |-> message,
                              features |-> <<>>,
                              error |-> TRUE])
          /\ NextFile(Reject(calls, message), errorCount + 1)
    /\ UNCHANGED <<uploads, script, music, musicVolume, musicDir, category,
                   analyzer, clock, pipeline, uploadedFiles, closure, disk, error,
                   responses>>

\* what is left of the state when an event handler of the component runs
UiFrame == <<uploads, music, musicVolume, musicDir, category, analyzer, clock, pipeline,
             analysis, errorCount, analysisError, i, disk, error, responses>>

\* the script box: onChange={(e) => setScript(e.target.value)}
onScriptChange ==
    /\ \E value \in {<<>>, <<" ">>, <<"H","i">>} : script' = value
    /\ UNCHANGED <<UiFrame, imageAnalysis, uploadedFiles, localStorage, closure, pc, calls>>

\* generateScriptFromAnalysis up to its await (the button is there when
\* there is an analysis)
generateScriptFromAnalysis ==
    /\ pc \in {"idle", "analyzed", "scripted"}
    /\ DOMAIN imageAnalysis # {}
    /\ closure' = Capture("generateScriptFromAnalysis")
    /\ pc' = "scripting"
    /\ UNCHANGED <<UiFrame, script, imageAnalysis, uploadedFiles, localStorage, calls>>

\* /api/generate-script answers with userScript when it is not blank, else
\* with a generated script: setScript and localStorage.setItem
ScriptReturns ==
    /\ pc = "scripting"
    /\ \E generatedScript \in IF trim(closure.script) # <<>> THEN {closure.script}
                                ELSE {<<"B","u","y",".">>} :
          /\ script' = generatedScript
          /\ localStorage' = Put(localStorage, "generatedScript", generatedScript)
    /\ pc' = "scripted"
    /\ UNCHANGED <<UiFrame, imageAnalysis, uploadedFiles, closure, calls>>

\* /api/generate-script fails: alert
ScriptFails ==
    /\ pc = "scripting"
    /\ pc' = "scripted"
    /\ UNCHANGED <<UiFrame, script, imageAnalysis, uploadedFiles, localStorage, closure,
                   calls>>

\* the Clear button of the script (shown when script is not empty)
clearScript ==
    /\ script # <<>>
    /\ script' = <<>>
    /\ localStorage' = Remove(localStorage, "generatedScript")
    /\ UNCHANGED <<UiFrame, imageAnalysis, uploadedFiles, closure, pc, calls>>

\* clearAll (the button is shown when there is anything to clear)
clearAll ==
    /\ uploadedFiles # <<>> \/ DOMAIN imageAnalysis # {} \/ script # <<>>
    /\ uploadedFiles' = <<>>
    /\ imageAnalysis' = <<>>
    /\ script' = <<>>
    /\ localStorage' = Remove(Remove(localStorage, "imageAnalysis"), "generatedScript")
    /\ UNCHANGED <<UiFrame, closure, pc, calls>>

\* removeFile(index)
removeFile ==
    /\ \E index \in 1..Len(uploadedFiles) :
          LET fileName == uploadedFiles[index].name
              updated == Remove(imageAnalysis, fileName)
          IN  /\ uploadedFiles' = SubSeq(uploadedFiles, 1, index - 1)
                                       \o SubSeq(uploadedFiles, index + 1, Len(uploadedFiles))
              /\ imageAnalysis' = updated
              /\ localStorage' = Put(localStorage, "imageAnalysis", stringify(updated))
    /\ UNCHANGED <<UiFrame, script, closure, pc, calls>>

\* handleGenerate up to its first await (the button is disabled without
\* files and with a blank script): the batch when there is no analysis, else
\* Step 3
handleGenerate ==
    /\ pc \in {"idle", "analyzed", "scripted"}
    /\ uploadedFiles # <<>>
    /\ trim(script) # <<>>
    /\ closure' = Capture("handleGenerate")
    /\ IF DOMAIN imageAnalysis = {}
       THEN /\ analysisError' = Null
            /\ analysis' = <<>>
            /\ errorCount' = 0
            /\ i' = 1
            /\ calls' = Append(calls, PostCall(uploadedFiles[1]))
            /\ pc' = "analyzing"
       ELSE /\ calls' = Append(calls, VideoPost(closure'))
            /\ pc' = "sending"
            /\ UNCHANGED <<analysis, errorCount, analysisError, i>>
    /\ UNCHANGED <<inputs, analyzer, clock, pipeline, uploadedFiles, localStorage, disk,
                   error, responses>>

\* /api/generate-video answers or fails: setGeneratedVideo or alert
VideoSettles ==
    /\ pc = "sending"
    /\ \E result \in {"ok", "failed"} : calls' = Settle(calls, result)
    /\ pc' = "generated"
    /\ UNCHANGED <<UiFrame, script, imageAnalysis, uploadedFiles, localStorage, closure>>

(***************************************************************************)
(* The allocator called on its own.                                        *)
(***************************************************************************)
AllocatorCall ==
    /\ pc = "uploaded"
    /\ plan' = segmentScriptAndMatchImages(uploads, script, imageAnalysis)
    /\ pc' = IF plan'.threw THEN "threw" ELSE "allocated"
    /\ UNCHANGED <<inputs, analyzer, browser, clock, reqFiles, cleanedScript,
                   recleaned, i, estimatedDuration, disk, calls, error, responses>>

(***************************************************************************)
(* The sanitizer applied to a script, and applied again to its own output. *)
(***************************************************************************)
Sanitize ==
    /\ pc = "raw"
    /\ cleanedScript' = cleanScript(script)
    /\ pc' = "cleaned"
    /\ UNCHANGED <<inputs, analyzer, browser, clock, reqFiles, plan, recleaned,
                   i, estimatedDuration, disk, calls, error, responses>>

SanitizeAgain ==
    /\ pc = "cleaned"
    /\ recleaned' = cleanScript(cleanedScript)
    /\ pc' = "recleaned"
    /\ UNCHANGED <<inputs, analyzer, browser, clock, reqFiles, plan, cleanedScript,
                   i, estimatedDuration, disk, calls, error, responses>>

(***************************************************************************)
(* Inputs.                                                                 *)
(***************************************************************************)
\* the longest upload list of a run of the handler
MaxFiles == 2

\* the longest asset list given to the allocator alone
MaxAssets == 3

\* the number of sentences of a script given to the allocator alone
MaxSentences == 2

RECURSIVE Concat(_, _)
Concat(parts, k) == IF k > Len(parts) THEN <<>> ELSE parts[k] \o Concat(parts, k + 1)

RECURSIVE Join(_, _)
Join(parts, k) ==
    IF k > Len(parts) THEN <<>>
    ELSE IF k = Len(parts) THEN parts[k]
    ELSE parts[k] \o <<" ">> \o Join(parts, k + 1)

SanPieces ==
    { <<"[">>, <<"]">>, <<"(">>, <<")">>, <<"(","a",")">>, <<"*">>, <<"-","-">>,
      <<NL>>, <<" ">>, <<"a">>,
      <<"V","o","i","c","e","o","v","e","r",":">>,
      <<"S","c","e","n","e"," ","1",":">> }

SanInputs ==
    UNION { {Concat(ps, 1) : ps \in [1..n -> SanPieces]} : n \in 0..MaxPieces }

\* two text lines with one to five line breaks between them
BlankLineScripts == {<<"a">> \o [k \in 1..n |-> NL] \o <<"b">> : n \in 1..5}

SentenceKitchen ==
    <<"O","u","r"," ","b","e","a","u","t","i","f","u","l"," ","k","i","t","c","h","e","n",
      " ","f","e","a","t","u","r","e","s"," ","g","r","a","n","i","t","e"," ",
      "c","o","u","n","t","e","r","s",".">>

SentenceBedroom ==
    <<"T","h","e"," ","b","e","d","r","o","o","m"," ","i","s"," ","a"," ",
      "p","e","a","c","e","f","u","l"," ","r","e","t","r","e","a","t",".">>

SentenceUpper ==
    <<"S","e","e"," ","t","h","e"," ","K","I","T","C","H","E","N",".">>

Sentences == {SentenceKitchen, SentenceBedroom, SentenceUpper}

ExampleScript == Join(<<SentenceKitchen, SentenceBedroom>>, 1)

DirectedScript ==
    <<"[","S","c","e","n","e"," ","1","]",NL>> \o SentenceBedroom \o <<" ","*","*">>

AllocScripts ==
    {Undefined} \cup
    UNION { {Join(ss, 1) : ss \in [1..n -> Sentences]} : n \in 0..MaxSentences }

PipelineScripts == {Undefined, ExampleScript, DirectedScript}

\* a file object of multer
File(id, name) == [id |-> id, originalname |-> name, path |-> <<"upload", id>>]

FileLists(names, max) ==
    UNION { {[k \in 1..n |-> File(k, f[k])] : f \in [1..n -> names]} : n \in 1..max }

\* the names that an analysis object may have an entry for
EntryNames == {"a.jpg", "b.jpg"}

\* the category of an entry
EntryCategories == {Kitchen, Bedroom, <<"7">>, Constructor}

NoAnalysis == [type |-> "undefined", json |-> "", entries |-> <<>>]

Text(json) == [type |-> "string", json |-> json, entries |-> <<>>]

Object(entries) == [type |-> "string", json |-> "object", entries |-> entries]

AnalysisObjects ==
    UNION { {Object(e) : e \in [S -> EntryCategories]} : S \in SUBSET EntryNames }

AllocAnalyses ==
    {NoAnalysis, Text("error"), Text("null"), Text("number")} \cup AnalysisObjects

PipelineAnalyses ==
    { NoAnalysis, Text("error"), Text("null"),
      Object([n \in EntryNames |-> IF n = "a.jpg" THEN Bedroom ELSE Kitchen]),
      Object([n \in {"a.jpg"} |-> Kitchen]),
      Object([n \in {"b.jpg"} |-> Constructor]) }

MusicInputs == {"", "none", "upbeat"}

\* req.body.music of the runs of the audio stage
MixMusics == MusicInputs \cup {"calm", "jazz", "constructor"}

\* String(n) for 0 <= n < 100: what FormData sends for the slider's value
Decimal(n) ==
    LET digit(d) == <<"0","1","2","3","4","5","6","7","8","9">>[d + 1]
    IN  IF n < 10 THEN <<digit(n)>> ELSE <<digit(n \div 10), digit(n % 10)>>

\* req.body.musicVolume of the runs of the audio stage: absent, every value
\* of the slider (min 5, max 50), strings parseInt reads as 0 or as NaN, and
\* numbers outside the slider
MixVolumes ==
    {Undefined, <<"0">>, <<"l","o","u","d">>, <<"7","5">>, <<"-","5">>}
        \cup {Decimal(n) : n \in 5..50}

\* the contents of the music directory
MusicDirs == SUBSET {"upbeat.mp3", "calm.mp3"}

InitRun(files, scripts, analyses, musics, at) ==
    /\ uploads \in files
    /\ script \in scripts
    /\ imageAnalysis \in analyses
    /\ music \in musics
    /\ pc = at
    /\ reqFiles = uploads
    /\ plan = NoPlan
    /\ cleanedScript = <<>>
    /\ recleaned = <<>>
    /\ i = 0
    /\ estimatedDuration = Whole(0)
    /\ disk = PathsOf(uploads)
    /\ calls = <<>>
    /\ error = ""
    /\ responses = <<>>

\* the music volume and the music directory of a run
InitMix(volumes, dirs) ==
    /\ musicVolume \in volumes
    /\ musicDir \in dirs

\* no analyze-image request has been received
InitAnalyzer(categories) ==
    /\ category \in categories
    /\ imagePath = Null
    /\ attempt = 0
    /\ lastError = ""

\* the upload component holds lists and has analyzed nothing
InitBrowser(lists) ==
    /\ uploadedFiles \in lists
    /\ analysis = <<>>
    /\ errorCount = 0
    /\ analysisError = Null
    /\ localStorage = <<>>
    /\ closure = [handler |-> "", uploadedFiles |-> <<>>, imageAnalysis |-> <<>>,
                  script |-> <<>>]

\* no run has taken its timestamp
InitClock ==
    /\ now = 1
    /\ timestamp = [r \in Runs |-> 0]
    /\ running = {}

(***************************************************************************)
(* Specifications.                                                         *)
(***************************************************************************)
\* one run of the handler
Init ==
    /\ InitRun(FileLists(EntryNames, MaxFiles), PipelineScripts, PipelineAnalyses,
               MusicInputs, "uploaded")
    /\ InitMix({Undefined}, {{}, {"upbeat.mp3"}})
    /\ InitAnalyzer({Undefined})
    /\ InitBrowser({<<>>})
    /\ InitClock

Next ==
    \/ StartRun
    \/ VoiceoverReturns
    \/ VoiceoverFails
    \/ ConvertReturns
    \/ ConvertFails
    \/ ClipReturns
    \/ ClipFails
    \/ ConcatReturns
    \/ ConcatFails
    \/ MixReturns
    \/ MixFails

Spec == Init /\ [][Next]_vars

\* the route handler is entered once the upload is stored
HandlerEntered == pc = "uploaded" /\ pc' \in {"voiceover", "failed"}

\* an awaited external call resolves or rejects
ExternalCallSettles ==
    \/ VoiceoverFails \/ VoiceoverReturns
    \/ ConvertFails \/ ConvertReturns
    \/ ClipFails \/ ClipReturns
    \/ ConcatFails \/ ConcatReturns
    \/ MixFails \/ MixReturns

\* the handler is entered and every external call returns
FairSpec == Spec /\ WF_pc(HandlerEntered) /\ WF_vars(ExternalCallSettles)

\* the allocator on its own, over many asset lists, scripts and payloads
AllocInit ==
    /\ InitRun(FileLists(EntryNames \cup {"c.jpg"}, MaxAssets), AllocScripts,
               AllocAnalyses, {"none"}, "uploaded")
    /\ InitMix({Undefined}, {{}})
    /\ InitAnalyzer({Undefined})
    /\ InitBrowser({<<>>})
    /\ InitClock

AllocNext == AllocatorCall

AllocSpec == AllocInit /\ [][AllocNext]_vars

\* the sanitizer on its own, over many scripts
SanInit ==
    /\ InitRun({<<File(1, "a.jpg")>>}, SanInputs \cup BlankLineScripts, {NoAnalysis},
               {"none"}, "raw")
    /\ InitMix({Undefined}, {{}})
    /\ InitAnalyzer({Undefined})
    /\ InitBrowser({<<>>})
    /\ InitClock

\* the audio stage over the music selections, volumes and music directories
MixInit ==
    /\ InitRun({<<File(1, "a.jpg")>>}, {ExampleScript},
               {Object([n \in {"a.jpg"} |-> Kitchen])}, MixMusics, "uploaded")
    /\ InitMix(MixVolumes, MusicDirs)
    /\ InitAnalyzer({Undefined})
    /\ InitBrowser({<<>>})
    /\ InitClock

MixSpec == MixInit /\ [][Next]_vars

\* the most images of a run with music
MaxImages == 7

\* a run with music over 1..MaxImages images of one category
FadeInit ==
    /\ InitRun({[k \in 1..n |-> File(k, "a.jpg")] : n \in 1..MaxImages}, {ExampleScript},
               {Text("error"), Object([n \in {"a.jpg"} |-> Kitchen])},
               {"upbeat", "none"}, "uploaded")
    /\ InitMix({Undefined}, {{"upbeat.mp3"}})
    /\ InitAnalyzer({Undefined})
    /\ InitBrowser({<<>>})
    /\ InitClock

FadeSpec == FadeInit /\ [][Next]_vars

\* upload.array('images', 20)
maxCount == 20

\* a run without music over every allowed number of images
ManifestInit ==
    /\ InitRun({[k \in 1..n |-> File(k, "a.jpg")] : n \in 1..maxCount}, {ExampleScript},
               {Text("error"), Object([n \in {"a.jpg"} |-> Kitchen])},
               {"none"}, "uploaded")
    /\ InitMix({Undefined}, {{}})
    /\ InitAnalyzer({Undefined})
    /\ InitBrowser({<<>>})
    /\ InitClock

ManifestSpec == ManifestInit /\ [][Next]_vars

\* one analyze-image request: with or without a file, the file on disk or
\* gone, with or without a category
AnalyzeInit ==
    /\ InitRun({<<>>, <<File(1, "a.jpg")>>}, {Undefined}, {NoAnalysis}, {""}, "received")
    /\ InitMix({Undefined}, {{}})
    /\ InitAnalyzer({Undefined, Kitchen, LivingRoom, Bedroom})
    /\ InitBrowser({<<>>})
    /\ InitClock

\* the upload is deleted by someone else before the handler runs
UploadVanishes ==
    /\ pc = "received"
    /\ disk # {}
    /\ disk' = {}
    /\ UNCHANGED <<inputs, analyzer, browser, clock, pipeline, pc, i, calls, error,
                   responses>>

AnalyzeNext ==
    \/ UploadVanishes
    \/ AnalyzeImage
    \/ VisionReturns
    \/ VisionFails
    \/ BackoffElapses

AnalyzeSpec == AnalyzeInit /\ [][AnalyzeNext]_vars

\* two runs and the clock
ClockInit ==
    /\ InitRun({<<File(1, "a.jpg")>>}, {ExampleScript}, {NoAnalysis}, {"none"}, "uploaded")
    /\ InitMix({Undefined}, {{}})
    /\ InitAnalyzer({Undefined})
    /\ InitBrowser({<<>>})
    /\ InitClock

ClockNext == Tick \/ TakeTimestamp \/ RunEnds

ClockSpec == ClockInit /\ [][ClockNext]_vars

\* the lists handleFileChange builds: [...uploadedFiles, ...fileData], names
\* may repeat; the category is '' until the user sets it
BatchLists ==
    UNION { [1..n -> [name : EntryNames, category : {<<>>, Kitchen}]] : n \in 1..MaxBatch }

\* the upload component before Analyze is pressed
BatchInit ==
    /\ InitRun({<<>>}, {Undefined}, {<<>>}, {""}, "idle")
    /\ InitMix({Undefined}, {{}})
    /\ InitAnalyzer({Undefined})
    /\ InitBrowser(BatchLists)
    /\ InitClock

BatchNext == analyzeImages \/ PostReturns \/ PostFails

BatchSpec == BatchInit /\ [][BatchNext]_vars

\* the upload component with files chosen and nothing analyzed
UiInit ==
    /\ InitRun({<<>>}, {<<>>}, {<<>>}, {""}, "idle")
    /\ InitMix({Undefined}, {{}})
    /\ InitAnalyzer({Undefined})
    /\ InitBrowser(UNION { [1..n -> [name : EntryNames, category : {Kitchen}]] : n \in 1..2 })
    /\ InitClock

UiNext ==
    \/ analyzeImages \/ PostReturns \/ PostFails
    \/ onScriptChange
    \/ generateScriptFromAnalysis \/ ScriptReturns \/ ScriptFails
    \/ clearScript \/ clearAll \/ removeFile
    \/ handleGenerate \/ VideoSettles

UiSpec == UiInit /\ [][UiNext]_vars

\* the batch while files are taken off the list
RemoveNext == analyzeImages \/ PostReturns \/ PostFails \/ removeFile

RemoveSpec == BatchInit /\ [][RemoveNext]_vars

SanNext == Sanitize \/ SanitizeAgain

SanSpec == SanInit /\ [][SanNext]_vars


(***************************************************************************)
(* Properties.                                                             *)
(***************************************************************************)
Terminal == {"finalized", "failed"}

\* what the run created and has not deleted
Residue == {p \in disk : p[1] # "upload"}

\* the calls of a successful run over n images, as <<cmd, output>>
ExpectedCalls(n) ==
    <<<<"tts", voiceoverPath>>>>
    \o [k \in 1..n |-> <<"convert", imgPath(k - 1)>>]
    \o [k \in 1..n |-> <<"clip", clipPath(k - 1)>>]
    \o <<<<"concat", videoNoAudioPath>>, <<"mix", finalVideoPath>>>>

StageRank ==
    [uploaded |-> 0, voiceover |-> 1, normalize |-> 2, clips |-> 3, concat |-> 4,
     mix |-> 5, finalized |-> 6, failed |-> 7]

\* C1: once a run has failed, nothing that the run created is left on disk
\* (voiceover, scratch directories and their files, manifest, silent video).
C1_FailureLeavesNothing == pc = "failed" => Residue = {}

\* C2: when the success response is sent, the only path of the run left on
\* disk is the final video; scratch directories, manifest, silent video,
\* voiceover and every uploaded image are gone.
C2_SuccessLeavesOnlyFinal == pc = "finalized" => disk = {finalVideoPath}

C2_Witness == pc = "finalized" /\ Len(uploads) > 1

\* C3: when the error response is sent, every uploaded image of the request
\* has been deleted, whichever step raised the error.
C3_FailureDeletesUploads == pc = "failed" => disk \cap PathsOf(uploads) = {}

C3_Witness ==
    /\ pc = "failed"
    /\ Len(uploads) > 1
    /\ reqFiles # uploads
    /\ error \in ExecErrors

\* the calls issued so far are the first calls of the fixed order, each one
\* issued after the one before it resolved, and a finished run issued all
C4_Order ==
    LET expected == ExpectedCalls(Len(reqFiles))
    IN  /\ Len(calls) <= Len(expected)
        /\ \A k \in 1..Len(calls) :
              /\ <<calls[k].cmd, calls[k].output>> = expected[k]
              /\ k < Len(calls) => calls[k].result = "ok"
        /\ pc = "finalized" =>
              /\ Len(calls) = Len(expected)
              /\ calls[Len(calls)].result = "ok"

\* a step goes to the next stage, to the next image of the same stage, or
\* to failed
C4_Advance ==
    \/ pc' = "failed"
    \/ StageRank[pc'] = StageRank[pc] + 1
    \/ pc' = pc /\ pc \in {"normalize", "clips"} /\ i' = i + 1

\* C4: the stages run in the order voiceover, normalization of all images,
\* clips of all images, concatenation, mix, finalization; each starts after
\* the one before it completed, none is skipped, repeated or re-entered.
C4_StagesInOrder == [](C4_Order) /\ [][C4_Advance]_vars

C4_Witness == pc = "finalized" /\ Len(reqFiles) > 1

C5_Safety ==
    /\ \A k \in 1..Len(calls) :
          calls[k].result = "failed" => k = Len(calls) /\ pc = "failed"
    /\ Len(responses) = IF pc \in Terminal THEN 1 ELSE 0
    /\ pc = "failed" => responses[1].status = 500
    /\ pc = "finalized" => responses[1].status = 200

C5_Stays == pc \in Terminal => pc' = pc /\ calls' = calls /\ responses' = responses

\* C5: a failed external call is the last call of the run, the run is then
\* failed, exactly one response is sent, a finished run stays as it ended,
\* and every run ends finalized or failed.
C5_FailureAborts == [](C5_Safety) /\ [][C5_Stays]_vars /\ <>(pc \in Terminal)

C5_Witness ==
    /\ pc = "failed"
    /\ Len(calls) > 0
    /\ calls[Len(calls)].result = "failed"
    /\ Len(calls) + 1 < Len(ExpectedCalls(Len(reqFiles)))

\* the stages an error can come from
Stages == {"synthesis", "normalization", "clip construction", "concatenation", "audio mix"}

C7_Idempotent == pc = "recleaned" => recleaned = cleanedScript

\* sub occurs in s
Contains(s, sub) == \E p \in 1..(Len(s) - Len(sub) + 1) : MatchAt(s, p, sub, FALSE)

\* the spans "[X]" and "(Y)" of s, for any text X and Y
Spans(s) ==
    {Slice(s, a, b) : <<a, b>> \in
        {ab \in (1..Len(s)) \X (1..Len(s)) :
            /\ ab[1] < ab[2]
            /\ \/ s[ab[1]] = "[" /\ s[ab[2]] = "]"
               \/ s[ab[1]] = "(" /\ s[ab[2]] = ")"}}

\* C8: no bracket-delimited or parenthetical span of the input occurs in
\* the output of the sanitizer.
C8_SpansRemoved ==
    pc \in {"cleaned", "recleaned"} =>
        \A span \in Spans(script) : ~Contains(cleanedScript, span)

\* b holds every element of a exactly once and nothing else
IsPermutation(a, b) ==
    /\ Len(a) = Len(b)
    /\ \A k \in 1..Len(a) : Cardinality({j \in 1..Len(b) : b[j] = a[k]}) = 1

\* C9: for a parsed analysis mapping the ordered asset list is a permutation
\* of the input list and there is one duration per asset.
C9_PlanIsPermutation ==
    pc = "allocated" =>
        /\ IsPermutation(uploads, plan.orderedFiles)
        /\ ~ParseFails(imageAnalysis) =>
              plan.timed /\ Len(plan.durations) = Len(uploads)

C9_Witness ==
    /\ pc = "allocated"
    /\ plan.timed
    /\ plan.orderedFiles # uploads
    /\ \E j, k \in 1..Len(uploads) : j < k /\ uploads[j].originalname = uploads[k].originalname
    /\ \E k \in 1..Len(uploads) : uploads[k].originalname \notin DOMAIN imageAnalysis.entries

\* C10: the durations of the plan sum to ceil(scriptLength / 15) seconds.
C10_DurationsSumToEstimate ==
    pc = "allocated" /\ plan.timed =>
        SumDurations(plan.durations, 1) = Whole(Ceil(Len(script), 15))


\* the least 0-based offset in the lower-cased script at which a keyword
\* phrase of the category starts; the script length when there is none
EarliestOffset(c) ==
    LET lower == toLowerCase(script)
        kws   == keywordsOf(c)
    IN  Least({r - 1 : r \in {q \in 1..Len(lower) :
                   \E k \in 1..Len(kws) : MatchAt(lower, q, kws[k], FALSE)}}
              \cup {Len(script)})

\* the place in the upload list where the category first appears
FirstUpload(c) ==
    Least({k \in 1..Len(uploads) : categoryOf(imageAnalysis, uploads[k]) = c})

\* C11: in the plan the assets of a category with a smaller earliest keyword
\* offset come first; categories with equal earliest offset keep the order
\* in which they first appear in the upload list; assets of one category
\* keep upload order.
C11_OrderedByEarliestKeyword ==
    pc = "allocated" /\ plan.timed =>
        \A j, k \in 1..Len(plan.orderedFiles) :
            j < k =>
                LET a  == plan.orderedFiles[j]
                    b  == plan.orderedFiles[k]
                    ca == categoryOf(imageAnalysis, a)
                    cb == categoryOf(imageAnalysis, b)
                IN  /\ EarliestOffset(ca) <= EarliestOffset(cb)
                    /\ ca # cb /\ EarliestOffset(ca) = EarliestOffset(cb) =>
                          FirstUpload(ca) < FirstUpload(cb)
                    /\ ca = cb => a.id < b.id


\* C12: the allocator never fails: for every script string and every
\* payload the call returns, and a plan without durations keeps the assets
\* in upload order.
C12_AllocatorNeverFails ==
    script # Undefined /\ pc # "uploaded" =>
        /\ pc = "allocated"
        /\ ~plan.timed => plan.orderedFiles = uploads

\* what ceil(length / 15) seconds is for the sanitized script
SpeechEstimate == Whole(Ceil(Len(cleanedScript), 15))

\* C13: with an absent or unparsable payload the allocator returns a null
\* plan in upload order and every clip lasts ceil(sanitizedLength / 15)
\* seconds divided by the number of assets.
C13_NullPlanFallback ==
    /\ script # Undefined
    /\ imageAnalysis.type = "undefined" \/ ParseFails(imageAnalysis)
    /\ pc # "uploaded"
    => /\ ~plan.threw
       /\ ~plan.timed
       /\ reqFiles = uploads
       /\ \A k \in 1..Len(calls) :
             calls[k].cmd = "clip" => calls[k].t = Over(SpeechEstimate, Len(uploads))

\* C14: the estimated duration that times the video and is reported in the
\* response is ceil(L / 15) seconds, L the length of the script (as sent or
\* as sanitized), on the allocator path and on the fallback path.
C14_EstimateIsCeil ==
    pc \in {"normalize", "clips", "concat", "mix", "finalized"} =>
        /\ estimatedDuration \in {Whole(Ceil(Len(script), 15)), SpeechEstimate}
        /\ \A k \in 1..Len(responses) :
              responses[k].status = 200 => responses[k].duration = estimatedDuration


C16_GainIsVolumePercent ==
    \A k \in 1..Len(calls) : calls[k].cmd = "mix" /\ calls[k].mode = "music" =>
        /\ calls[k].voice = [num |-> 1, den |-> 1]
        /\ musicVolume = Undefined => calls[k].volume = [num |-> 3, den |-> 20]
        /\ musicVolume = <<"5","0">> => calls[k].volume = [num |-> 1, den |-> 2]
        /\ \A n \in 5..50 :
              musicVolume = Decimal(n)
                  => calls[k].volume.num * 100 = n * calls[k].volume.den

\* music was mixed at the largest volume of the slider
C16_Witness ==
    /\ pc = "finalized"
    /\ musicVolume = <<"5","0">>
    /\ calls[Len(calls)].mode = "music"
    /\ calls[Len(calls)].volume = [num |-> 1, den |-> 2]


\* the places of the vision requests in the log of calls
VisionCalls == {k \in 1..Len(calls) : calls[k].cmd = "vision"}

\* C17: one analyze-image request makes at most 3 vision requests; a
\* request is followed by another one only if it failed; a request that
\* resolved is the last one and the response is 200 with its content; when
\* 3 requests have failed the response is 500 with the error of the last
C17_AtMostThreeAttempts ==
    /\ Cardinality(VisionCalls) <= 3
    /\ \A k \in VisionCalls :
          /\ (\E j \in VisionCalls : j > k) => calls[k].result = "failed"
          /\ calls[k].result = "ok" =>
                /\ pc = "answered"
                /\ responses[Len(responses)].status = 200
                /\ responses[Len(responses)].analysis = calls[k].output
    /\ (Cardinality(VisionCalls) = 3 /\ \A k \in VisionCalls : calls[k].result = "failed")
          => /\ pc = "failed"
             /\ responses[Len(responses)].status = 500
             /\ responses[Len(responses)].details = calls[Greatest(VisionCalls)].error

\* three vision requests failed, the first and the last with different errors
C17_Witness ==
    /\ pc = "failed"
    /\ Cardinality(VisionCalls) = 3
    /\ calls[Least(VisionCalls)].error # calls[Greatest(VisionCalls)].error
    /\ responses[Len(responses)].details = calls[Greatest(VisionCalls)].error


\* C20: once an analyze-image request has been answered, with 200 or with
\* 500, the file multer stored for it is not on disk
C20_UploadDeletedOnEveryExit ==
    pc \in {"answered", "failed"} => \A k \in 1..Len(uploads) : uploads[k].path \notin disk

\* a request without a category failed with the TypeError after its file
\* was accepted, and the file is gone
C20_Witness ==
    /\ pc = "failed"
    /\ uploads # <<>>
    /\ category = Undefined
    /\ imagePath = uploads[1].path
    /\ error = TypeErrorMessage
    /\ imagePath \notin disk


\* C18: two runs that are under way at the same time share no voiceover
\* path, scratch directory, manifest, silent video or final video
C18_RunsUseDisjointNames ==
    \A r \in running : \A q \in running \ {r} :
        RunPaths(timestamp[r]) \cap RunPaths(timestamp[q]) = {}

\* the places of the requests that were rejected
FailedPosts == {k \in 1..Len(calls) : calls[k].cmd = "post" /\ calls[k].result = "failed"}

\* C19: when the batch is over one request was made per uploaded file,
\* whatever failed before it; the mapping has an entry for the name of every
\* file; the entry of a file whose request failed is flagged and has no
\* features; the error count is the number of requests that failed
C19_PartialSuccessPerItem ==
    pc = "analyzed" =>
        /\ Len(calls) = Len(uploadedFiles)
        /\ \A k \in 1..Len(uploadedFiles) :
              /\ calls[k].input = uploadedFiles[k].name
              /\ uploadedFiles[k].name \in DOMAIN imageAnalysis
              /\ k \in FailedPosts =>
                    /\ imageAnalysis[uploadedFiles[k].name].error
                    /\ imageAnalysis[uploadedFiles[k].name].features = <<>>
        /\ errorCount = Cardinality(FailedPosts)
        /\ errorCount > 0 => analysisError # Null /\ analysisError[1] = errorCount


\* C21: the value stored under generatedScript is the script shown in
\* the script box, no key standing for the empty script
C21_StoredScriptIsShownScript ==
    script = IF "generatedScript" \in DOMAIN localStorage
             THEN localStorage["generatedScript"] ELSE <<>>


\* C22: two text lines separated by three or more blank lines come out
\* separated by exactly one blank line; the output never has two blank
\* lines in a row; no output line and not the output itself starts or ends
\* with white space
C22_BlankLinesCollapsed ==
    pc \in {"cleaned", "recleaned"} =>
        /\ \A n \in 4..5 :
              script = <<"a">> \o [k \in 1..n |-> NL] \o <<"b">>
                  => cleanedScript = <<"a", NL, NL, "b">>
        /\ ~Contains(cleanedScript, <<NL, NL, NL>>)
        /\ \A q \in 1..Len(cleanedScript) :
              cleanedScript[q] \in {" ", "\t"} =>
                  /\ q > 1 /\ cleanedScript[q - 1] # NL
                  /\ q < Len(cleanedScript) /\ cleanedScript[q + 1] # NL
        /\ cleanedScript # <<>> =>
              ~IsSpace(cleanedScript[1]) /\ ~IsSpace(cleanedScript[Len(cleanedScript)])



\* no keyword phrase of the category occurs anywhere in the lower-cased script
Unmatched(c) ==
    LET lower == toLowerCase(script)
        kws   == keywordsOf(c)
    IN  ~\E q \in 1..Len(lower), k \in 1..Len(kws) : MatchAt(lower, q, kws[k], FALSE)

\* C23: a category without any keyword occurrence gets the window
\* [scriptLength, scriptLength] of length 0, all of its assets come after the
\* assets of every category with an occurrence, and several such categories
\* keep the order in which they first appear in the upload list.
C23_UnmatchedCategoriesLast ==
    pc = "allocated" /\ plan.timed =>
        LET segments == SegmentsOf(uploads, script, imageAnalysis)
        IN  /\ \A s \in 1..Len(segments) :
                   Unmatched(segments[s].category) =>
                       /\ segments[s].startPos = Len(script)
                       /\ segments[s].endPos = Len(script)
                       /\ segments[s].charLength = 0
            /\ \A j, k \in 1..Len(plan.orderedFiles) :
                   j < k =>
                       LET ca == categoryOf(imageAnalysis, plan.orderedFiles[j])
                           cb == categoryOf(imageAnalysis, plan.orderedFiles[k])
                       IN  /\ Unmatched(ca) => Unmatched(cb)
                           /\ Unmatched(ca) /\ Unmatched(cb) /\ ca # cb =>
                                  FirstUpload(ca) < FirstUpload(cb)


\* the greatest 0-based offset in the lower-cased script at which a keyword
\* phrase of the category ends; the script length when there is none
LatestEnd(c) ==
    LET lower == toLowerCase(script)
        kws   == keywordsOf(c)
    IN  IF Unmatched(c) THEN Len(script)
        ELSE Greatest({e \in 0..Len(lower) : \E k \in 1..Len(kws) :
                          MatchAt(lower, e - Len(kws[k]) + 1, kws[k], FALSE)})

(***************************************************************************)
(* The allocator on scripts in which two occurrences of a keyword phrase   *)
(* share a character: a custom category "aa" and the text "aaa".           *)
(***************************************************************************)
\* the longest filler between the first phrase and the text "aaa"
MaxFiller == 44

DoubleA == <<"a","a">>

WindowScripts ==
    {<<"a","a","a">>, <<"a","a">>, <<"x">>} \cup
    {DoubleA \o [k \in 1..n |-> "x"] \o <<"a","a","a">> : n \in 38..MaxFiller}

WindowAnalyses ==
    UNION { {Object(e) : e \in [S -> {Kitchen, DoubleA}]} : S \in SUBSET EntryNames }

WindowInit ==
    /\ InitRun(FileLists(EntryNames, MaxFiles), WindowScripts, WindowAnalyses,
               {"none"}, "uploaded")
    /\ InitMix({Undefined}, {{}})
    /\ InitAnalyzer({Undefined})
    /\ InitBrowser({<<>>})
    /\ InitClock

WindowSpec == WindowInit /\ [][AllocNext]_vars

\* C24: every asset of a category gets max(3, ceil(windowCharLength / 15))
\* seconds divided by the number of assets of the category, the window
\* reaching from the earliest keyword start to the latest keyword end; each
\* duration is positive, a category gets at least 3 seconds, and
\* 0 <= window start <= window end <= scriptLength.
C24_WindowDurationSplitEvenly ==
    pc = "allocated" /\ plan.timed =>
        \A j \in 1..Len(plan.orderedFiles) :
            LET c        == categoryOf(imageAnalysis, plan.orderedFiles[j])
                n        == Cardinality({k \in 1..Len(uploads) :
                                categoryOf(imageAnalysis, uploads[k]) = c})
                start    == EarliestOffset(c)
                end      == LatestEnd(c)
                ceil     == (end - start + 14) \div 15
                seconds  == IF ceil > 3 THEN ceil ELSE 3
            IN  /\ 0 <= start /\ start <= end /\ end <= Len(script)
                /\ plan.durations[j].num * n = seconds * plan.durations[j].den
                /\ plan.durations[j].num > 0 /\ plan.durations[j].den > 0
                /\ seconds >= 3


\* the -t of the clip made from image j of the run
ClipSeconds(j) ==
    calls[CHOOSE c \in 1..Len(calls) :
              calls[c].cmd = "clip" /\ calls[c].output = clipPath(j - 1)].t

\* C25: when music is mixed the fade-out lasts 3 seconds and starts at the
\* total duration minus 3, the total being the sum of the clip durations of
\* the run; the start offset is never negative.
C25_FadeEndsWithVideo ==
    \A k \in 1..Len(calls) :
        calls[k].cmd = "mix" /\ calls[k].mode = "music" =>
            LET total == DoubleSum([j \in 1..Len(reqFiles) |-> ClipSeconds(j)],
                                   Len(reqFiles))
            IN  /\ calls[k].fade.d = 3
                /\ calls[k].fade.st = DoubleMinus(total, FromInt(3))
                /\ ~calls[k].fade.st.negative


\* the place of a digit character in the character set
CharCode(c) == CHOOSE d \in 1..Len(Digits) : Digits[d] = c

\* a < b in the lexical order of strings of digits
LexLess(a, b) ==
    \/ \E q \in 1..Len(a) :
          /\ q <= Len(b)
          /\ \A r \in 1..(q - 1) : a[r] = b[r]
          /\ CharCode(a[q]) < CharCode(b[q])
    \/ Len(a) < Len(b) /\ \A r \in 1..Len(a) : a[r] = b[r]

\* C26: the manifest names one clip per asset in plan order, entry i being
\* the clip of normalized image i, converted from the i-th asset of the plan
\* and lasting the plan's i-th duration; the zero-padded names sort lexically
\* in index order for up to 20 images; the clip durations add up to the
\* duration of the response.
C26_ManifestFollowsPlan ==
    pc = "finalized" =>
        LET n      == Len(reqFiles)
            concat == calls[CHOOSE c \in 1..Len(calls) : calls[c].cmd = "concat"]
        IN  /\ Len(concat.list) = n
            /\ \A j \in 1..n : \E v, c \in 1..Len(calls) :
                   /\ calls[v].cmd = "convert"
                   /\ calls[v].input = plan.orderedFiles[j].path
                   /\ calls[c].cmd = "clip"
                   /\ calls[c].input = calls[v].output
                   /\ calls[c].output = concat.list[j]
                   /\ calls[c].t = IF plan.timed THEN Reduce(plan.durations[j])
                                   ELSE Over(estimatedDuration, n)
            /\ \A j, k \in 1..n : j < k => LexLess(concat.list[j][2], concat.list[k][2])
            /\ DoubleSum([j \in 1..n |-> ClipSeconds(j)], n)
                  = responses[Len(responses)].seconds


\* C27: whatever musicVolume the client sends (absent, 0, negative, above
\* 50, not a number), the gain of the music stream of a music mix lies
\* between 0.05 and 0.50.
C27_GainWithinSliderRange ==
    \A k \in 1..Len(calls) : calls[k].cmd = "mix" /\ calls[k].mode = "music" =>
        /\ calls[k].volume.den > 0
        /\ 5 * calls[k].volume.den <= 100 * calls[k].volume.num
        /\ 100 * calls[k].volume.num <= 50 * calls[k].volume.den


\* C28: the k-th failed vision request (k = 1, 2, 3) is followed by a wait
\* of k seconds, so a request whose 3 attempts all fail has waited 1, 2 and
\* 3 seconds before it is marked failed; no wait follows a request that
\* resolved.
C28_LinearBackoffAfterEveryFailure ==
    /\ pc = "failed" /\ Cardinality(VisionCalls) = retries =>
          \A n \in 1..retries : \E k \in VisionCalls :
              /\ Cardinality({j \in VisionCalls : j <= k}) = n
              /\ k < Len(calls)
              /\ calls[k + 1].cmd = "setTimeout"
              /\ calls[k + 1].t = Whole(1000 * n)
    /\ \A k \in VisionCalls :
          calls[k].result = "ok" => k = Len(calls)


\* the names with an entry in the imageAnalysis item of localStorage
StoredNames ==
    IF "imageAnalysis" \in DOMAIN localStorage
    THEN DOMAIN localStorage["imageAnalysis"].entries ELSE {}

\* no file of the list has the name, and neither the state nor the stored
\* item has an entry for it
Forgotten(name) ==
    /\ \A k \in 1..Len(uploadedFiles) : uploadedFiles[k].name # name
    /\ name \notin DOMAIN imageAnalysis
    /\ name \notin StoredNames

\* C29: once removeFile has taken the last file of a name off the list, no
\* entry for the name comes back, in the state or in localStorage, also
\* when a batch started before the removal completes afterwards.
C29_RemovedAnalysisStaysRemoved ==
    [][\A name \in EntryNames : Forgotten(name) => Forgotten(name)']_vars


\* the step issues the request to /api/generate-video
SendsVideo ==
    /\ Len(calls') > Len(calls)
    /\ calls'[Len(calls')].cmd = "post-video"

\* C30: the imageAnalysis field of the request to /api/generate-video is the
\* analysis state at the moment the request is sent; after handleGenerate
\* awaited analyzeImages it has one entry per uploaded file of the batch.
C30_PayloadIsCurrentAnalysis ==
    [][SendsVideo =>
          /\ calls'[Len(calls')].imageAnalysis = stringify(imageAnalysis')
          /\ pc = "analyzing" =>
                \A k \in 1..Len(closure.uploadedFiles) :
                    closure.uploadedFiles[k].name
                        \in DOMAIN calls'[Len(calls')].imageAnalysis.entries]_vars

====
